---- MODULE Spec2Model ----
(***************************************************************************)
(* Model of based_utils: the interpolation bounds and sequence generators  *)
(* of calx/interpol.py and the Color value type of colors.py.              *)
(*                                                                         *)
(* Numbers.  The program computes with Python floats.  The model computes  *)
(* with exact integers that count a fixed quantum: a model value v stands  *)
(* for the number v * quantum.  Addition, subtraction, comparison, modulo  *)
(* and min/max of such numbers are exact, so the model is the program on   *)
(* every input whose float arithmetic is exact and is the program up to    *)
(* float rounding elsewhere.  Where a half is needed (period / 2, 0.5) the *)
(* comparison is multiplied out or the unit is an even number of quanta.   *)
(* A quotient (a position of inverse_interpolate, a fraction) is the pair  *)
(* <<numerator, denominator>> and is compared by cross-multiplication.     *)
(***************************************************************************)
EXTENDS Integers, Sequences, FiniteSets, TLC

VARIABLES
    cArgs,      \* CyclicInterpolationBounds: the constructor's arguments
    cBounds,    \* CyclicInterpolationBounds: the constructed object (or the error)
    fArgs,      \* frange: the positional arguments of the call, <<step, ...>>
    fPc,        \* frange: where the generator is suspended
    fS,         \* frange: local s
    fE,         \* frange: local e
    fN,         \* frange: local n
    fOut,       \* frange: the values yielded so far, in order
    qArgs,      \* fractions: the arguments n and inclusive
    qPc,        \* fractions: where the generator is suspended
    qI,         \* fractions: the loop variable i (0 before the loop)
    qOut,       \* fractions: the values yielded so far, as <<numerator, denominator>>
    hArg,       \* Color.from_hex: the argument, a sequence of characters or NoneArg
    hRes,       \* Color.from_hex: what the call returned or raised
    hHex,       \* Color.hex of the returned Color, once read
    kArgs,      \* Color.from_fields: the arguments lightness, saturation, hue
    kPath,      \* Color: the Color constructed and the Colors derived from it, in order
    kOps,       \* Color: the operations that derived kPath[2], kPath[3], ...
    kCall,      \* Color: the arguments of the last operation
    kShades,    \* Color: the Colors the last shades(...) call yielded, in order
    bArgs,      \* bounds: the class and the positional arguments of the constructor
    bObj,       \* bounds: the constructed object (or the error)
    bPc,        \* bounds: what has been called on the object
    bF,         \* bounds: the argument f of interpolate, in steps of 1/FDen
    bVal,       \* bounds: what interpolate returned, in 1/FDen quanta
    bN,         \* bounds: the argument n of inverse_interpolate, in 1/FDen quanta
    bInside,    \* bounds: the argument inside of inverse_interpolate
    bPos,       \* bounds: what inverse_interpolate returned or raised
    mObj,       \* cached _span: the bounds instance the threads share
    mCache,     \* cached _span: the instance's __dict__ entry, NotGiven while absent
    mPc,        \* cached _span: where each thread is in cached_property.__get__
    mVal,       \* cached _span: each thread's local val, the value it returns
    mStored,    \* cached _span: the values stored in the entry, in order
    wArgs,      \* refresh_lines: the block, crop_to_terminal and the terminal's height
    wPc,        \* refresh_lines: which of its calls have returned
    wHeight,    \* refresh_lines: lines_written, what write_lines returned
    wWritten,   \* refresh_lines: the lines write_lines wrote, in order
    wScreen     \* refresh_lines: the lines on the terminal, top to bottom

cyclicVars == <<cArgs, cBounds>>
frangeVars == <<fArgs, fPc, fS, fE, fN, fOut>>
fractionsVars == <<qArgs, qPc, qI, qOut>>
hexVars == <<hArg, hRes, hHex>>
colorVars == <<kArgs, kPath, kOps, kCall, kShades>>
boundsVars == <<bArgs, bObj, bPc, bF, bVal, bN, bInside, bPos>>
memoVars == <<mObj, mCache, mPc, mVal, mStored>>
linesVars == <<wArgs, wPc, wHeight, wWritten, wScreen>>
vars ==
    <<cyclicVars, frangeVars, fractionsVars, hexVars, colorVars, boundsVars, memoVars,
      linesVars>>

----------------------------------------------------------------------------
(* Bounds of the model *)

MaxVal == 6          \* start and end of cyclic bounds range over -MaxVal..MaxVal
MaxPeriod == 4       \* period ranges over -MaxPeriod..MaxPeriod
MaxStep == 2         \* frange: step ranges over -MaxStep..MaxStep
MaxEnd == 3          \* frange: bounds range over -MaxEnd..MaxEnd and near RelTolInv
MaxYield == 6        \* frange: the consumer pulls at most MaxYield values
MaxN == 8            \* fractions: n ranges over 0..MaxN
MaxHexLen == 7       \* from_hex: strings over HexAlphabet of length 0..MaxHexLen
Half == 2            \* Color: the ratio 0.5 is Half quanta, so ratios lie on a grid of 1/(2*Half)
MaxOps == 2          \* Color: operations applied to a constructed Color
FDen == 4            \* bounds: f ranges over the multiples of 1/FDen
MaxExp == 2          \* logarithmic bounds: arguments range over base^0 .. base^MaxExp
MaxBlock == 4        \* write_lines: blocks of 0..MaxBlock lines
MaxTermHeight == 5   \* write_lines: terminals of 0..MaxTermHeight lines

----------------------------------------------------------------------------
(* Python arithmetic *)

Abs(x) == IF x < 0 THEN -x ELSE x

Min(a, b) == IF a <= b THEN a ELSE b

Max(a, b) == IF a >= b THEN a ELSE b

\* Python's a % b for b # 0: the result has the sign of the divisor.
PyMod(a, b) == IF b > 0 THEN a % b ELSE -((-a) % (-b))

----------------------------------------------------------------------------
(* calx/interpol.py: CyclicInterpolationBounds.__init__ *)

\* A plausible slip: the shift goes away from end instead of towards it.
PhaseShiftAway(start, end, period) ==
    IF Abs(end - start) * 2 > period
    THEN (IF start < end THEN start - period ELSE start + period)
    ELSE start

\* if abs(end - start) > period / 2: start += period if start < end else -period
PhaseShift(start, end, period) ==
    IF Abs(end - start) * 2 > period
    THEN (IF start < end THEN start + period ELSE start - period)
    ELSE start

\* The object __init__ leaves behind; period = 0 makes start % period raise.
CyclicInterpolationBounds(start, end, period) ==
    IF period = 0
    THEN [status |-> "ZeroDivisionError", start |-> 0, end |-> 0, period |-> 0]
    ELSE LET s == PyMod(start, period)
             e == PyMod(end, period)
         IN  [status |-> "ok", start |-> PhaseShift(s, e, period),
              end |-> e, period |-> period]

NoBounds == [status |-> "new", start |-> 0, end |-> 0, period |-> 0]

CyclicIdle == cArgs = [start |-> 0, end |-> 0, period |-> 0] /\ cBounds = NoBounds

CyclicInit ==
    /\ cArgs \in [start : -MaxVal..MaxVal, end : -MaxVal..MaxVal,
                  period : -MaxPeriod..MaxPeriod]
    /\ cBounds = NoBounds

CyclicConstruct ==
    /\ cBounds.status = "new"
    /\ cBounds' = CyclicInterpolationBounds(cArgs.start, cArgs.end, cArgs.period)
    /\ UNCHANGED cArgs
    /\ UNCHANGED <<frangeVars, fractionsVars, hexVars, colorVars,
                   boundsVars, memoVars, linesVars>>

CyclicNext == CyclicConstruct

----------------------------------------------------------------------------
(* calx/interpol.py: frange *)

\* math.isclose's default rel_tol is 1e-09 (abs_tol 0): RelTolInv is 1 / rel_tol.
RelTolInv == 1000000000

\* math.isclose(a, b): a == b, or |a - b| <= rel_tol * |a|, or <= rel_tol * |b|.
\* The difference is a whole number of quanta, so diff <= |x| / RelTolInv is
\* diff <= |x| \div RelTolInv.
IsClose(a, b) ==
    \/ a = b
    \/ Abs(b - a) <= Abs(b) \div RelTolInv
    \/ Abs(b - a) <= Abs(a) \div RelTolInv

\* The values frange is called with: small ones, where only equal numbers are
\* close, and ones of the size of RelTolInv, where neighbours are close too.
FrangeVals == (-MaxEnd..MaxEnd) \cup {RelTolInv + d : d \in -MaxEnd..MaxEnd}

\* The docstring's frange(0.13, 0.51), frange(0.13, 0.52) and frange(0.13, 0.53),
\* with a quantum of 0.01.
FrangeDocCalls == {<<13, 51>>, <<13, 52>>, <<13, 53>>}

\* frange(step), frange(step, start_or_end), frange(step, start_or_end, end)
FrangeCalls ==
    FrangeDocCalls
    \cup {<<st>> : st \in -MaxStep..MaxStep}
    \cup {<<st, x>> : st \in -MaxStep..MaxStep, x \in FrangeVals}
    \cup {<<st, a, b>> : st \in -MaxStep..MaxStep, a \in FrangeVals, b \in FrangeVals}

FrangeStep == fArgs[1]

\* A plausible slip: the zero check is missing.
StepIsFalsyNever(step) == FALSE

\* if not step:
StepIsFalsy(step) == step = 0

\* x or d
Or(x, d) == IF x = 0 THEN d ELSE x

\* if end is None: s, e = 0, start_or_end or 1   (start_or_end is None in frange(step))
\* else:           s, e = start_or_end or 0, end
FrangeS(args) == IF Len(args) = 3 THEN Or(args[2], 0) ELSE 0

FrangeE(args) ==
    IF Len(args) = 3 THEN args[3]
    ELSE IF Len(args) = 2 THEN Or(args[2], 1)
    ELSE 1

\* A plausible slip: the bound is compared with <= and without the tolerance.
LoopCondInclusive(n, e) == n <= e

\* while n < e and not isclose(n, e):
LoopCond(n, e) == n < e /\ ~IsClose(n, e)

FrangeIdle ==
    fArgs = <<>> /\ fPc = "idle" /\ fS = 0 /\ fE = 0 /\ fN = 0 /\ fOut = <<>>

\* Calling frange only creates the generator: no line of its body has run.
FrangeInit ==
    /\ fArgs \in FrangeCalls
    /\ fPc = "created"
    /\ fS = 0 /\ fE = 0 /\ fN = 0
    /\ fOut = <<>>

\* First next(): step is falsy, raise ValueError(step).
FrangeRaise ==
    /\ fPc = "created"
    /\ StepIsFalsy(FrangeStep)
    /\ fPc' = "raised"
    /\ UNCHANGED <<fArgs, fS, fE, fN, fOut>>
    /\ UNCHANGED <<cyclicVars, fractionsVars, hexVars, colorVars,
                   boundsVars, memoVars, linesVars>>

\* First next(): s and e are bound and s is yielded.
FrangeFirst ==
    /\ fPc = "created"
    /\ ~StepIsFalsy(FrangeStep)
    /\ fS' = FrangeS(fArgs)
    /\ fE' = FrangeE(fArgs)
    /\ fOut' = <<FrangeS(fArgs)>>
    /\ fPc' = "yielded_s"
    /\ UNCHANGED <<fArgs, fN>>
    /\ UNCHANGED <<cyclicVars, fractionsVars, hexVars, colorVars,
                   boundsVars, memoVars, linesVars>>

\* n after the generator resumes: n = s + step after yield s, n += step after yield n.
FrangeResumed == IF fPc = "yielded_s" THEN fS + FrangeStep ELSE fN + FrangeStep

\* A later next(): the loop condition holds and n is yielded.
FrangeYield ==
    /\ fPc \in {"yielded_s", "yielded_n"}
    /\ Len(fOut) < MaxYield
    /\ LoopCond(FrangeResumed, fE)
    /\ fN' = FrangeResumed
    /\ fOut' = Append(fOut, FrangeResumed)
    /\ fPc' = "yielded_n"
    /\ UNCHANGED <<fArgs, fS, fE>>
    /\ UNCHANGED <<cyclicVars, fractionsVars, hexVars, colorVars,
                   boundsVars, memoVars, linesVars>>

\* A later next(): the loop condition fails, the generator returns (StopIteration).
FrangeStop ==
    /\ fPc \in {"yielded_s", "yielded_n"}
    /\ ~LoopCond(FrangeResumed, fE)
    /\ fN' = FrangeResumed
    /\ fPc' = "done"
    /\ UNCHANGED <<fArgs, fS, fE, fOut>>
    /\ UNCHANGED <<cyclicVars, fractionsVars, hexVars, colorVars,
                   boundsVars, memoVars, linesVars>>

FrangeNext == FrangeRaise \/ FrangeFirst \/ FrangeYield \/ FrangeStop

----------------------------------------------------------------------------
(* calx/interpol.py: fractions *)

\* A plausible slip: the loop stops one value early, range(1, n).
FractionsEndShort(n) == n

\* end = n + 1
FractionsEnd(n) == n + 1

\* i / end is kept as the exact quotient <<i, end>>; the ints 0 and 1 as x / 1.
Quot(num, den) == <<num, den>>

QuotLess(p, q) == p[1] * q[2] < q[1] * p[2]

QuotEq(p, q) == p[1] * q[2] = q[1] * p[2]

FractionsIdle ==
    qArgs = [n |-> 0, inclusive |-> FALSE] /\ qPc = "idle" /\ qI = 0 /\ qOut = <<>>

FractionsInit ==
    /\ qArgs \in [n : 0..MaxN, inclusive : BOOLEAN]
    /\ qPc = "created"
    /\ qI = 0
    /\ qOut = <<>>

\* The generator is suspended before or inside the for loop.
FractionsBeforeLoopEnd ==
    \/ qPc = "created" /\ ~qArgs.inclusive
    \/ qPc \in {"yielded_zero", "yielded_i"}

\* range(1, end) has a next element.
FractionsLoopHasNext == qI + 1 < FractionsEnd(qArgs.n)

\* if inclusive: yield 0
FractionsYieldZero ==
    /\ qPc = "created"
    /\ qArgs.inclusive
    /\ qOut' = <<Quot(0, 1)>>
    /\ qPc' = "yielded_zero"
    /\ UNCHANGED <<qArgs, qI>>
    /\ UNCHANGED <<cyclicVars, frangeVars, hexVars, colorVars,
                   boundsVars, memoVars, linesVars>>

\* for i in range(1, end): yield i / end
FractionsYieldFraction ==
    /\ FractionsBeforeLoopEnd
    /\ FractionsLoopHasNext
    /\ qI' = qI + 1
    /\ qOut' = Append(qOut, Quot(qI + 1, FractionsEnd(qArgs.n)))
    /\ qPc' = "yielded_i"
    /\ UNCHANGED qArgs
    /\ UNCHANGED <<cyclicVars, frangeVars, hexVars, colorVars,
                   boundsVars, memoVars, linesVars>>

\* if inclusive: yield 1
FractionsYieldOne ==
    /\ FractionsBeforeLoopEnd
    /\ ~FractionsLoopHasNext
    /\ qArgs.inclusive
    /\ qOut' = Append(qOut, Quot(1, 1))
    /\ qPc' = "yielded_one"
    /\ UNCHANGED <<qArgs, qI>>
    /\ UNCHANGED <<cyclicVars, frangeVars, hexVars, colorVars,
                   boundsVars, memoVars, linesVars>>

\* The body ends (StopIteration).
FractionsStop ==
    /\ \/ FractionsBeforeLoopEnd /\ ~FractionsLoopHasNext /\ ~qArgs.inclusive
       \/ qPc = "yielded_one"
    /\ qPc' = "done"
    /\ UNCHANGED <<qArgs, qI, qOut>>
    /\ UNCHANGED <<cyclicVars, frangeVars, hexVars, colorVars,
                   boundsVars, memoVars, linesVars>>

FractionsNext ==
    FractionsYieldZero \/ FractionsYieldFraction \/ FractionsYieldOne \/ FractionsStop

----------------------------------------------------------------------------
(* colors.py: _HSLuv.from_hex, Color.from_hex, Color.hex *)

HexDigits == <<"0", "1", "2", "3", "4", "5", "6", "7",
               "8", "9", "a", "b", "c", "d", "e", "f">>

UpperDigits == <<"A", "B", "C", "D", "E", "F">>

\* str.lower() on one character
LowerChar(ch) ==
    IF \E i \in 1..6 : UpperDigits[i] = ch
    THEN HexDigits[10 + (CHOOSE i \in 1..6 : UpperDigits[i] = ch)]
    ELSE ch

\* rgb_hex.removeprefix("#").lower()
Lower(s) == [i \in 1..Len(s) |-> LowerChar(s[i])]

\* A plausible slip: lstrip("#") removes every leading '#'.
RECURSIVE StripAllHashes(_)
StripAllHashes(s) ==
    IF Len(s) > 0 /\ s[1] = "#" THEN StripAllHashes(Tail(s)) ELSE s

RemovePrefixHash(s) == IF Len(s) > 0 /\ s[1] = "#" THEN Tail(s) ELSE s

\* A plausible slip: three digits are repeated as a group (rgbrgb), not doubled.
ExpandChannelsGrouped(h) ==
    IF Len(h) = 1 THEN <<h[1], h[1]>> \o <<h[1], h[1]>> \o <<h[1], h[1]>>
    ELSE IF Len(h) = 2 THEN h \o h \o h
    ELSE IF Len(h) = 3 THEN h \o h
    ELSE <<h[1], h[2], h[3], h[4], h[5], h[6]>>

\* The branches on len(rgb_hex), for the lengths 1, 2, 3 and 6: r + g + b.
ExpandChannels(h) ==
    IF Len(h) = 1 THEN <<h[1], h[1]>> \o <<h[1], h[1]>> \o <<h[1], h[1]>>
    ELSE IF Len(h) = 2 THEN h \o h \o h
    ELSE IF Len(h) = 3 THEN <<h[1], h[1], h[2], h[2], h[3], h[3]>>
    ELSE <<h[1], h[2], h[3], h[4], h[5], h[6]>>

\* else: raise ValueError(rgb_hex)
LengthAccepted(h) == Len(h) \in {1, 2, 3, 6}

IsHexDigit(ch) == \E i \in 1..16 : HexDigits[i] = LowerChar(ch)

DigitValue(ch) == (CHOOSE i \in 1..16 : HexDigits[i] = LowerChar(ch)) - 1

\* hsluv.hex_to_hsluv, the external conversion, on "#" + six hex digits.  It
\* reads the three channel bytes; the colour-space map that follows is a
\* bijection of the byte triples and is modelled by the triple of the bytes.
HexToHsluv(s) ==
    [hue |-> 16 * DigitValue(s[2]) + DigitValue(s[3]),
     saturation |-> 16 * DigitValue(s[4]) + DigitValue(s[5]),
     lightness |-> 16 * DigitValue(s[6]) + DigitValue(s[7])]

\* hsluv.hsluv_to_hex, its inverse: "#" and two lowercase digits per channel.
ByteHex(b) == <<HexDigits[(b \div 16) + 1], HexDigits[(b % 16) + 1]>>

HsluvToHex(t) == <<"#">> \o ByteHex(t.hue) \o ByteHex(t.saturation) \o ByteHex(t.lightness)

\* q * k for a quotient q whose denominator divides num * k
QuotTimes(q, k) == (q[1] * k) \div q[2]

\* Color._from_hsluv: cls(lightness / 100, saturation / 100, hue / 360)
FromHsluv(t) ==
    [lightness |-> Quot(t.lightness, 100), saturation |-> Quot(t.saturation, 100),
     hue |-> Quot(t.hue, 360)]

\* Color._hsluv: _HSLuv(hue * 360, saturation * 100, lightness * 100)
ToHsluv(c) ==
    [hue |-> QuotTimes(c.hue, 360), saturation |-> QuotTimes(c.saturation, 100),
     lightness |-> QuotTimes(c.lightness, 100)]

\* Color.hex: hsluv_to_hex(...)[1:]
ColorHex(c) == Tail(HsluvToHex(ToHsluv(c)))

NoneArg == <<"None">>

NoColor == [lightness |-> Quot(0, 1), saturation |-> Quot(0, 1), hue |-> Quot(0, 1)]

HexAlphabet == {"#", "0", "a", "F"}

\* The docstring's examples.
HexDocCalls ==
    {<<"3">>, <<"0", "3">>, <<"3", "0", "3">>, <<"0", "a", "f">>,
     <<"8", "0", "8", "3", "0", "3">>}

HexCalls ==
    {NoneArg} \cup HexDocCalls
    \cup UNION {[1..len -> HexAlphabet] : len \in 0..MaxHexLen}

\* What Color.from_hex(arg) returns or raises.  A string of an accepted length
\* that holds a character that is no hex digit reaches the external
\* conversion, whose answer to it is not this repository's: it raises
\* ValueError (int(x, 16)) or converts what it read.
FromHexOutcomes(arg) ==
    IF arg = NoneArg THEN {[status |-> "None", color |-> NoColor]}
    ELSE LET h == Lower(RemovePrefixHash(arg)) IN
         IF ~LengthAccepted(h) THEN {[status |-> "ValueError", color |-> NoColor]}
         ELSE LET rgb == ExpandChannels(h) IN
              IF \A i \in 1..Len(rgb) : IsHexDigit(rgb[i])
              THEN {[status |-> "Color",
                     color |-> FromHsluv(HexToHsluv(<<"#">> \o rgb))]}
              ELSE {[status |-> "ValueError", color |-> NoColor],
                    [status |-> "ColorOfMalformed", color |-> NoColor]}

HexPending == [status |-> "pending", color |-> NoColor]

HexIdle == hArg = <<>> /\ hRes = [status |-> "idle", color |-> NoColor] /\ hHex = <<>>

HexInit ==
    /\ hArg \in HexCalls
    /\ hRes = HexPending
    /\ hHex = <<>>

\* Color.from_hex(rgb_hex)
ColorFromHex ==
    /\ hRes = HexPending
    /\ hRes' \in FromHexOutcomes(hArg)
    /\ UNCHANGED <<hArg, hHex>>
    /\ UNCHANGED <<cyclicVars, frangeVars, fractionsVars, colorVars,
                   boundsVars, memoVars, linesVars>>

\* .hex of the Color that from_hex returned
ColorReadHex ==
    /\ hRes.status = "Color"
    /\ hHex = <<>>
    /\ hHex' = ColorHex(hRes.color)
    /\ UNCHANGED <<hArg, hRes>>
    /\ UNCHANGED <<cyclicVars, frangeVars, fractionsVars, colorVars,
                   boundsVars, memoVars, linesVars>>

HexNext == ColorFromHex \/ ColorReadHex

----------------------------------------------------------------------------
(* colors.py: Color.from_fields, but_with, with_changed, contrasting_shade,  *)
(* contrasting_hue.  A ratio is a whole number of quanta, Unit quanta are 1. *)

Unit == 2 * Half

\* calx/interpol.py: trim(n, lower, upper) = min(max(lower, n), upper)
Trim(n, lower, upper) == Min(Max(lower, n), upper)

\* A plausible slip: the saturation is not clamped.
FromFieldsSaturationAsIs(lightness, saturation, hue) ==
    [lightness |-> Trim(lightness, 0, Unit), saturation |-> saturation,
     hue |-> PyMod(hue, Unit)]

\* cls(trim(lightness), trim(saturation), hue % 1)
FromFields(lightness, saturation, hue) ==
    [lightness |-> Trim(lightness, 0, Unit), saturation |-> Trim(saturation, 0, Unit),
     hue |-> PyMod(hue, Unit)]

\* An optional keyword argument: <<>> is None, <<x>> is the value x.
Given(x) == <<x>>

NotGiven == <<>>

\* self.x if x is None else x
OrElse(opt, own) == IF opt = NotGiven THEN own ELSE opt[1]

ButWith(c, lightness, saturation, hue) ==
    FromFields(OrElse(lightness, c.lightness), OrElse(saturation, c.saturation),
               OrElse(hue, c.hue))

\* self.x * factor, the product of two ratios (exact when Unit divides it)
Times(a, b) == (a * b) \div Unit

\* A plausible slip: "if not x" in place of "if x is None", the factor 0 is
\* taken as not given.
WithChangedZeroAsNone(c, lightness, saturation, hue) ==
    ButWith(c,
            IF lightness \in {NotGiven, Given(0)} THEN NotGiven
            ELSE Given(Times(c.lightness, lightness[1])),
            IF saturation \in {NotGiven, Given(0)} THEN NotGiven
            ELSE Given(Times(c.saturation, saturation[1])),
            IF hue = NotGiven THEN NotGiven ELSE Given(c.hue + hue[1]))

\* None if x is None else self.x * x   (self.hue + hue for the hue)
WithChanged(c, lightness, saturation, hue) ==
    ButWith(c,
            IF lightness = NotGiven THEN NotGiven ELSE Given(Times(c.lightness, lightness[1])),
            IF saturation = NotGiven THEN NotGiven ELSE Given(Times(c.saturation, saturation[1])),
            IF hue = NotGiven THEN NotGiven ELSE Given(c.hue + hue[1]))

\* A plausible slip: the sum is not reduced modulo 1 (from_fields then clamps it).
ContrastingShadeNoWrap(c) == ButWith(c, Given(c.lightness + Half), NotGiven, NotGiven)

\* self.but_with(lightness=(self.lightness + 0.5) % 1)
ContrastingShade(c) ==
    ButWith(c, Given(PyMod(c.lightness + Half, Unit)), NotGiven, NotGiven)

\* A plausible slip: but_with in place of with_changed, the hue is set to 0.5.
ContrastingHueAbsolute(c) == ButWith(c, NotGiven, NotGiven, Given(Half))

\* self.with_changed(hue=0.5)
ContrastingHue(c) == WithChanged(c, NotGiven, NotGiven, Given(Half))

\* The arguments of an operation that takes none.
NoCall ==
    [lightness |-> NotGiven, saturation |-> NotGiven, hue |-> NotGiven,
     n |-> 0, inclusive |-> FALSE]

ColorIdle ==
    /\ kArgs = [lightness |-> 0, saturation |-> 0, hue |-> 0]
    /\ kPath = <<>> /\ kOps = <<>> /\ kCall = NoCall /\ kShades = <<>>

ColorInit ==
    /\ kArgs \in [lightness : -1..(Unit + 1), saturation : -1..(Unit + 1),
                  hue : -Unit..(2 * Unit)]
    /\ kPath = <<>>
    /\ kOps = <<>>
    /\ kCall = NoCall
    /\ kShades = <<>>

\* The Color the next operation is applied to.
Current == kPath[Len(kPath)]

\* Color.from_fields(lightness=..., saturation=..., hue=...)
ColorFromFields ==
    /\ kPath = <<>>
    /\ kPath' = <<FromFields(kArgs.lightness, kArgs.saturation, kArgs.hue)>>
    /\ UNCHANGED <<kArgs, kOps, kCall, kShades>>
    /\ UNCHANGED <<cyclicVars, frangeVars, fractionsVars, hexVars,
                   boundsVars, memoVars, linesVars>>

\* .contrasting_shade of the current Color
ColorContrastingShade ==
    /\ kPath # <<>>
    /\ Len(kOps) < MaxOps
    /\ kPath' = Append(kPath, ContrastingShade(Current))
    /\ kOps' = Append(kOps, "contrasting_shade")
    /\ kCall' = NoCall
    /\ kShades' = <<>>
    /\ UNCHANGED kArgs
    /\ UNCHANGED <<cyclicVars, frangeVars, fractionsVars, hexVars,
                   boundsVars, memoVars, linesVars>>

\* .contrasting_hue of the current Color
ColorContrastingHue ==
    /\ kPath # <<>>
    /\ Len(kOps) < MaxOps
    /\ kPath' = Append(kPath, ContrastingHue(Current))
    /\ kOps' = Append(kOps, "contrasting_hue")
    /\ kCall' = NoCall
    /\ kShades' = <<>>
    /\ UNCHANGED kArgs
    /\ UNCHANGED <<cyclicVars, frangeVars, fractionsVars, hexVars,
                   boundsVars, memoVars, linesVars>>

\* The whole sequence a fractions(n, inclusive=inclusive) generator yields.
FractionsSeq(n, inclusive) ==
    (IF inclusive THEN <<Quot(0, 1)>> ELSE <<>>)
    \o [i \in 1..(FractionsEnd(n) - 1) |-> Quot(i, FractionsEnd(n))]
    \o (IF inclusive THEN <<Quot(1, 1)>> ELSE <<>>)

\* The ratio i / end in quanta (exact when end divides i * Unit).
ToRatio(q) == (q[1] * Unit) \div q[2]

\* A plausible slip: with_changed in place of but_with, the lightness is scaled.
ShadeRelative(c, lightness) == WithChanged(c, Given(lightness), NotGiven, NotGiven)

\* self.but_with(lightness=lightness)
Shade(c, lightness) == ButWith(c, Given(lightness), NotGiven, NotGiven)

\* for lightness in fractions(n, inclusive=inclusive): yield self.shade(lightness)
Shades(c, n, inclusive) ==
    LET fr == FractionsSeq(n, inclusive)
    IN  [i \in 1..Len(fr) |-> Shade(c, ToRatio(fr[i]))]

\* Arguments of the operations.  Absolute ratios and hues: below 0, inside, above 1.
RatioArgs == {-1, Half, Unit + 1}

HueArgs == {-1, Half, Unit}

\* Factors of with_changed: -1, 0, 0.5 and 2.
FactorArgs == {-Unit, 0, Half, 2 * Unit}

\* Hue amounts of with_changed: a backward step and more than a full turn.
AmountArgs == {-1, Unit + Half}

Opt(S) == {NotGiven} \cup {Given(x) : x \in S}

NumGiven(call) ==
    (IF call.lightness = NotGiven THEN 0 ELSE 1)
    + (IF call.saturation = NotGiven THEN 0 ELSE 1)
    + (IF call.hue = NotGiven THEN 0 ELSE 1)

\* Keyword calls with no argument, with one, or with all three given (then
\* lightness and saturation alike and the least of the hues).
KeywordCalls(S, H) ==
    {call \in [lightness : Opt(S), saturation : Opt(S), hue : Opt(H),
               n : {0}, inclusive : {FALSE}] :
        \/ NumGiven(call) <= 1
        \/ /\ NumGiven(call) = 3
           /\ call.lightness = call.saturation
           /\ \A h \in H : call.hue[1] <= h}

\* The product of the ratio a and the factor opt is on the grid.
ExactTimes(a, opt) == IF opt = NotGiven THEN TRUE ELSE (a * opt[1]) % Unit = 0

\* The n whose fractions i / (n + 1) are on the grid.
ShadeCounts == {n \in 0..Unit : Unit % (n + 1) = 0}

\* .but_with(...) of the current Color
ColorButWith ==
    /\ kPath # <<>>
    /\ Len(kOps) < MaxOps
    /\ \E call \in KeywordCalls(RatioArgs, HueArgs) :
        /\ kPath' = Append(kPath, ButWith(Current, call.lightness, call.saturation, call.hue))
        /\ kCall' = call
    /\ kOps' = Append(kOps, "but_with")
    /\ kShades' = <<>>
    /\ UNCHANGED kArgs
    /\ UNCHANGED <<cyclicVars, frangeVars, fractionsVars, hexVars,
                   boundsVars, memoVars, linesVars>>

\* .with_changed(...) of the current Color
ColorWithChanged ==
    /\ kPath # <<>>
    /\ Len(kOps) < MaxOps
    /\ \E call \in KeywordCalls(FactorArgs, AmountArgs) :
        /\ ExactTimes(Current.lightness, call.lightness)
        /\ ExactTimes(Current.saturation, call.saturation)
        /\ kPath' = Append(kPath, WithChanged(Current, call.lightness, call.saturation, call.hue))
        /\ kCall' = call
    /\ kOps' = Append(kOps, "with_changed")
    /\ kShades' = <<>>
    /\ UNCHANGED kArgs
    /\ UNCHANGED <<cyclicVars, frangeVars, fractionsVars, hexVars,
                   boundsVars, memoVars, linesVars>>

\* .shade(lightness) of the current Color
ColorShade ==
    /\ kPath # <<>>
    /\ Len(kOps) < MaxOps
    /\ \E l \in RatioArgs :
        /\ kPath' = Append(kPath, Shade(Current, l))
        /\ kCall' = [NoCall EXCEPT !.lightness = Given(l)]
    /\ kOps' = Append(kOps, "shade")
    /\ kShades' = <<>>
    /\ UNCHANGED kArgs
    /\ UNCHANGED <<cyclicVars, frangeVars, fractionsVars, hexVars,
                   boundsVars, memoVars, linesVars>>

\* list(.shades(n, inclusive=inclusive)) of the current Color; the next
\* operation is applied to the first or the last Color yielded, or to the
\* current Color again when none is yielded.
ColorShades ==
    /\ kPath # <<>>
    /\ Len(kOps) < MaxOps
    /\ \E n \in ShadeCounts, inclusive \in BOOLEAN :
        LET ys == Shades(Current, n, inclusive) IN
        /\ kShades' = ys
        /\ kCall' = [NoCall EXCEPT !.n = n, !.inclusive = inclusive]
        /\ IF Len(ys) = 0
           THEN kPath' = Append(kPath, Current)
           ELSE \E j \in {1, Len(ys)} : kPath' = Append(kPath, ys[j])
    /\ kOps' = Append(kOps, "shades")
    /\ UNCHANGED kArgs
    /\ UNCHANGED <<cyclicVars, frangeVars, fractionsVars, hexVars,
                   boundsVars, memoVars, linesVars>>

ColorOpsNext ==
    \/ ColorFromFields \/ ColorContrastingShade \/ ColorContrastingHue
    \/ ColorButWith \/ ColorWithChanged \/ ColorShade \/ ColorShades

\* from_fields arguments of the runs that go on with every operation.
ColorOpsInit ==
    /\ kArgs \in [lightness : {-1, Half, Unit}, saturation : {Half, Unit + 1},
                  hue : {-1, Half}]
    /\ kPath = <<>>
    /\ kOps = <<>>
    /\ kCall = NoCall
    /\ kShades = <<>>

ColorNext == ColorFromFields \/ ColorContrastingShade \/ ColorContrastingHue

----------------------------------------------------------------------------
(* calx/interpol.py: InterpolationBounds and its subclasses *)

\* The default end and period of cyclic bounds, a full turn (2 pi), in quanta.
FULL_CIRCLE == 4

\* A position as the quotient of two integers, sign carried by the numerator.
Positive(q) == IF q[2] < 0 THEN Quot(-q[1], -q[2]) ELSE q

\* trim(f, 0.0, 1.0) of a quotient
TrimQuot(q) ==
    LET p == Positive(q)
    IN  IF p[1] < 0 THEN Quot(0, 1)
        ELSE IF p[1] > p[2] THEN Quot(1, 1)
        ELSE p

\* InterpolationBounds.__init__(start, end): self._start, self._end
InterpolationBounds(start, end) ==
    [status |-> "ok", kind |-> "linear", start |-> start, end |-> end,
     period |-> 0, base |-> 0]

\* return self._end - self._start
Span(b) == b.end - b.start

\* A plausible slip: the span is added to the end.
InterpolateFromEnd(b, k) == b.end * FDen + Span(b) * k

\* self._start + self._span * f, for f = k / FDen, in 1/FDen quanta
Interpolate(b, k) == b.start * FDen + Span(b) * k

Returned(q) == [status |-> "ok", f |-> q]

Raised(error) == [status |-> error, f |-> Quot(0, 1)]

\* A plausible slip: the division by a zero span is not caught.
InverseInterpolateUncaught(b, n, inside) ==
    IF Span(b) = 0
    THEN Raised("ZeroDivisionError")
    ELSE LET f == Quot(n - b.start * FDen, Span(b) * FDen)
         IN  Returned(IF inside THEN TrimQuot(f) ELSE f)

\* try: f = (n - self._start) / self._span
\* except ZeroDivisionError: return 0.0
\* return trim(f, 0.0, 1.0) if inside else f        (n in 1/FDen quanta)
InverseInterpolate(b, n, inside) ==
    IF Span(b) = 0
    THEN Returned(Quot(0, 1))
    ELSE LET f == Quot(n - b.start * FDen, Span(b) * FDen)
         IN  Returned(IF inside THEN TrimQuot(f) ELSE f)

\* A plausible slip: the result is not reduced modulo the period.
CyclicInterpolateNoWrap(b, k) == Interpolate(b, k)

\* super().interpolate(f) % self._period
CyclicInterpolate(b, k) == PyMod(Interpolate(b, k), b.period * FDen)

\* super().inverse_interpolate(n % self._period, inside=inside)
CyclicInverseInterpolate(b, n, inside) ==
    InverseInterpolate(b, PyMod(n, b.period * FDen), inside)

\* CyclicInterpolationBounds(start, end, period) as a bounds object
CyclicBounds(start, end, period) ==
    LET c == CyclicInterpolationBounds(start, end, period)
    IN  [status |-> c.status, kind |-> "cyclic", start |-> c.start, end |-> c.end,
         period |-> c.period, base |-> 0]

RECURSIVE Power(_, _)
\* base ** e for an integer e >= 0
Power(base, e) == IF e = 0 THEN 1 ELSE base * Power(base, e - 1)

\* The arguments whose logarithm is exact: the powers of base up to MaxExp.
Powers(base) == {Power(base, e) : e \in 0..MaxExp}

\* What math.log leaves behind when it raises ValueError: no number.
DomainError == NotGiven

\* A plausible slip: a non-positive argument is taken as 1, whose logarithm is 0.
LogClamped(x, base) ==
    IF x <= 0 THEN Given(0) ELSE Given(CHOOSE e \in 0..MaxExp : Power(base, e) = x)

\* math.log(x, base) for base > 1: ValueError for x <= 0, else the exponent
\* (arguments are 0, negative, or a power of base)
Log(x, base) ==
    IF x <= 0 THEN DomainError ELSE Given(CHOOSE e \in 0..MaxExp : Power(base, e) = x)

\* LogarithmicInterpolationBounds(start, end, base):
\* super().__init__(log(start, base), log(end, base))
LogarithmicInterpolationBounds(start, end, base) ==
    IF Log(start, base) = DomainError \/ Log(end, base) = DomainError
    THEN [status |-> "ValueError", kind |-> "logarithmic", start |-> 0, end |-> 0,
          period |-> 0, base |-> base]
    ELSE [status |-> "ok", kind |-> "logarithmic", start |-> Log(start, base)[1],
          end |-> Log(end, base)[1], period |-> 0, base |-> base]

\* The exponent start + span * f is a whole number >= 0, so base ** it is exact.
LogExact(b, k) == Interpolate(b, k) % FDen = 0 /\ Interpolate(b, k) >= 0

\* self._base ** super().interpolate(f)
LogInterpolate(b, k) == Power(b.base, Interpolate(b, k) \div FDen) * FDen

\* super().inverse_interpolate(log(n, self._base), inside=inside)
\* (n in 1/FDen quanta, a whole number: 0, negative, or a power of base)
LogInverseInterpolate(b, n, inside) ==
    IF Log(n \div FDen, b.base) = DomainError
    THEN Raised("ValueError")
    ELSE InverseInterpolate(b, Log(n \div FDen, b.base)[1] * FDen, inside)

\* The constructor's defaults: (0, 1), (0, FULL_CIRCLE, FULL_CIRCLE), (0, 1, 10).
Default(kind, i) ==
    IF i = 1 THEN 0
    ELSE IF i = 2 THEN (IF kind = "cyclic" THEN FULL_CIRCLE ELSE 1)
    ELSE (IF kind = "cyclic" THEN FULL_CIRCLE ELSE 10)

\* The i-th parameter of the call: the argument given, or the default.
Param(call, i) == IF i <= Len(call.args) THEN call.args[i] ELSE Default(call.kind, i)

Construct(call) ==
    IF call.kind = "linear"
    THEN InterpolationBounds(Param(call, 1), Param(call, 2))
    ELSE IF call.kind = "cyclic"
    THEN CyclicBounds(Param(call, 1), Param(call, 2), Param(call, 3))
    ELSE LogarithmicInterpolationBounds(Param(call, 1), Param(call, 2), Param(call, 3))

BoundsVals == -MaxEnd..MaxEnd

\* Periods: negative, zero, small, and the one the co-domain fits in.
Periods == (-1..MaxStep) \cup {MaxPeriod}

LogVals(base) == {-1, 0} \cup Powers(base)

BoundsCalls ==
    {[kind |-> "linear", args |-> a] :
        a \in {<<>>} \cup {<<s>> : s \in BoundsVals}
              \cup {<<s, e>> : s \in BoundsVals, e \in BoundsVals}}
    \cup {[kind |-> "cyclic", args |-> a] :
        a \in {<<>>} \cup {<<s, e>> : s \in BoundsVals, e \in BoundsVals}
              \cup {<<s, e, p>> : s \in BoundsVals, e \in BoundsVals, p \in Periods}}
    \cup {[kind |-> "logarithmic", args |-> a] :
        a \in {<<>>} \cup {<<s>> : s \in LogVals(10)}
              \cup {<<s, e>> : s \in LogVals(10), e \in LogVals(10)}
              \cup {<<s, e, 2>> : s \in LogVals(2), e \in LogVals(2)}}

NoObject ==
    [status |-> "new", kind |-> "none", start |-> 0, end |-> 0, period |-> 0, base |-> 0]

NoPosition == [status |-> "none", f |-> Quot(0, 1)]

BoundsIdle ==
    /\ bArgs = [kind |-> "none", args |-> <<>>]
    /\ bObj = NoObject /\ bPc = "idle"
    /\ bF = 0 /\ bVal = 0 /\ bN = 0 /\ bInside = FALSE /\ bPos = NoPosition

BoundsInit ==
    /\ bArgs \in BoundsCalls
    /\ bObj = NoObject /\ bPc = "new"
    /\ bF = 0 /\ bVal = 0 /\ bN = 0 /\ bInside = FALSE /\ bPos = NoPosition

\* The constructor runs: an object, or the error it raised.
BoundsConstruct ==
    /\ bPc = "new"
    /\ bObj' = Construct(bArgs)
    /\ bPc' = IF Construct(bArgs).status = "ok" THEN "built" ELSE "failed"
    /\ UNCHANGED <<bArgs, bF, bVal, bN, bInside, bPos>>
    /\ UNCHANGED <<cyclicVars, frangeVars, fractionsVars, hexVars, colorVars, memoVars, linesVars>>

\* The values of f: the grid of [0, 1] and one step beyond it on either side.
FSteps == -1..(FDen + 1)

\* bounds.interpolate(f), dispatched on the class of the object
BoundsInterpolate ==
    /\ bPc = "built"
    /\ \E k \in FSteps :
        /\ bObj.kind = "logarithmic" => LogExact(bObj, k)
        /\ bF' = k
        /\ bVal' = IF bObj.kind = "linear" THEN Interpolate(bObj, k)
                   ELSE IF bObj.kind = "cyclic" THEN CyclicInterpolate(bObj, k)
                   ELSE LogInterpolate(bObj, k)
    /\ bPc' = "interpolated"
    /\ UNCHANGED <<bArgs, bObj, bN, bInside, bPos>>
    /\ UNCHANGED <<cyclicVars, frangeVars, fractionsVars, hexVars, colorVars, memoVars, linesVars>>

\* bounds.inverse_interpolate(n, inside=inside), dispatched on the class
InverseOf(b, n, inside) ==
    IF b.kind = "linear" THEN InverseInterpolate(b, n, inside)
    ELSE IF b.kind = "cyclic" THEN CyclicInverseInterpolate(b, n, inside)
    ELSE LogInverseInterpolate(b, n, inside)

\* The values of n in 1/FDen quanta; whole arguments of log for logarithmic bounds.
NVals(b) ==
    IF b.kind = "logarithmic" THEN {x * FDen : x \in LogVals(b.base)}
    ELSE -(MaxEnd * FDen)..(MaxEnd * FDen)

\* bounds.inverse_interpolate(n, inside=inside) of a fresh object
BoundsInverse ==
    /\ bPc = "built"
    /\ \E n \in NVals(bObj), inside \in BOOLEAN :
        /\ bN' = n
        /\ bInside' = inside
        /\ bPos' = InverseOf(bObj, n, inside)
    /\ bPc' = "inverted"
    /\ UNCHANGED <<bArgs, bObj, bF, bVal>>
    /\ UNCHANGED <<cyclicVars, frangeVars, fractionsVars, hexVars, colorVars, memoVars, linesVars>>

\* bounds.inverse_interpolate(bounds.interpolate(f), inside=inside)
BoundsRoundTrip ==
    /\ bPc = "interpolated"
    /\ \E inside \in BOOLEAN :
        /\ bN' = bVal
        /\ bInside' = inside
        /\ bPos' = InverseOf(bObj, bVal, inside)
    /\ bPc' = "roundtrip"
    /\ UNCHANGED <<bArgs, bObj, bF, bVal>>
    /\ UNCHANGED <<cyclicVars, frangeVars, fractionsVars, hexVars, colorVars, memoVars, linesVars>>

BoundsNext == BoundsConstruct \/ BoundsInterpolate \/ BoundsInverse \/ BoundsRoundTrip

----------------------------------------------------------------------------
(* functools.cached_property on InterpolationBounds._span, read by two threads *)

Threads == {1, 2}

MemoIdle ==
    /\ mObj = NoObject /\ mCache = NotGiven
    /\ mPc = [t \in Threads |-> "idle"]
    /\ mVal = [t \in Threads |-> 0]
    /\ mStored = <<>>

\* A bounds instance nobody has read _span of; both threads are about to.
MemoInit ==
    /\ mObj \in {InterpolationBounds(s, e) : s \in -MaxVal..MaxVal, e \in -MaxVal..MaxVal}
    /\ mCache = NotGiven
    /\ mPc = [t \in Threads |-> "lookup"]
    /\ mVal = [t \in Threads |-> 0]
    /\ mStored = <<>>

\* A plausible slip: on a miss the entry is reserved with a placeholder before
\* the value is computed.
MemoLookupReserving(t) ==
    /\ mPc[t] = "lookup"
    /\ IF mCache = NotGiven
       THEN /\ mPc' = [mPc EXCEPT ![t] = "compute"]
            /\ mCache' = Given(0)
            /\ mStored' = Append(mStored, 0)
            /\ UNCHANGED mVal
       ELSE /\ mPc' = [mPc EXCEPT ![t] = "return"]
            /\ mVal' = [mVal EXCEPT ![t] = mCache[1]]
            /\ UNCHANGED <<mCache, mStored>>
    /\ UNCHANGED mObj
    /\ UNCHANGED <<cyclicVars, frangeVars, fractionsVars, hexVars, colorVars, boundsVars, linesVars>>

\* val = cache.get(self.attrname, _NOT_FOUND); if val is _NOT_FOUND: ...
MemoLookup(t) ==
    /\ mPc[t] = "lookup"
    /\ IF mCache = NotGiven
       THEN /\ mPc' = [mPc EXCEPT ![t] = "compute"]
            /\ UNCHANGED mVal
       ELSE /\ mPc' = [mPc EXCEPT ![t] = "return"]
            /\ mVal' = [mVal EXCEPT ![t] = mCache[1]]
    /\ UNCHANGED <<mObj, mCache, mStored>>
    /\ UNCHANGED <<cyclicVars, frangeVars, fractionsVars, hexVars, colorVars, boundsVars, linesVars>>

\* val = self.func(instance): the body of _span runs
MemoCompute(t) ==
    /\ mPc[t] = "compute"
    /\ mVal' = [mVal EXCEPT ![t] = Span(mObj)]
    /\ mPc' = [mPc EXCEPT ![t] = "store"]
    /\ UNCHANGED <<mObj, mCache, mStored>>
    /\ UNCHANGED <<cyclicVars, frangeVars, fractionsVars, hexVars, colorVars, boundsVars, linesVars>>

\* cache[self.attrname] = val; return val
MemoStore(t) ==
    /\ mPc[t] = "store"
    /\ mCache' = Given(mVal[t])
    /\ mStored' = Append(mStored, mVal[t])
    /\ mPc' = [mPc EXCEPT ![t] = "return"]
    /\ UNCHANGED <<mObj, mVal>>
    /\ UNCHANGED <<cyclicVars, frangeVars, fractionsVars, hexVars, colorVars, boundsVars, linesVars>>

MemoNext == \E t \in Threads : MemoLookup(t) \/ MemoCompute(t) \/ MemoStore(t)

----------------------------------------------------------------------------
(* cli/io.py: write_lines, clear_lines, refresh_lines *)

\* Python's seq[i:] for a list: a negative i counts from the end, and -0 is 0.
PySliceFrom(seq, i) ==
    LET first == IF i < 0 THEN Max(Len(seq) + i, 0) ELSE Min(i, Len(seq))
    IN  SubSeq(seq, first + 1, Len(seq))

\* height = len(block); if crop_to_terminal: height = min(max_height - 1, height)
WriteHeight(block, crop_to_terminal, max_height) ==
    IF crop_to_terminal THEN Min(max_height - 1, Len(block)) ELSE Len(block)

\* for line in block[-height:]: sys.stdout.write(f"{line}\n")
LinesWritten(block, height) == PySliceFrom(block, -height)

\* One LINE_UP + LINE_CLEAR: the last line on the terminal is gone.
ClearLine(screen) ==
    IF screen = <<>> THEN <<>> ELSE SubSeq(screen, 1, Len(screen) - 1)

RECURSIVE ClearLines(_, _)
\* for _ in range(amount): sys.stdout.write(LINE_UP + LINE_CLEAR)
ClearLines(screen, amount) ==
    IF amount <= 0 THEN screen ELSE ClearLines(ClearLine(screen), amount - 1)

\* What the terminal shows before the call: one earlier line.
EarlierOutput == <<0>>

\* The blocks: the lines 1 .. n, for n = 0 .. MaxBlock.
Blocks == {[i \in 1..n |-> i] : n \in 0..MaxBlock}

LinesIdle ==
    /\ wArgs = [lines |-> <<>>, crop_to_terminal |-> FALSE, max_height |-> 0]
    /\ wPc = "idle" /\ wHeight = 0 /\ wWritten = <<>> /\ wScreen = <<>>

\* refresh_lines(lines, crop_to_terminal=...) is called on a terminal of
\* max_height lines (what get_terminal_size() reports).
LinesInit ==
    /\ wArgs \in [lines : Blocks, crop_to_terminal : BOOLEAN,
                  max_height : 0..MaxTermHeight]
    /\ wPc = "called"
    /\ wHeight = 0
    /\ wWritten = <<>>
    /\ wScreen = EarlierOutput

\* lines_written = write_lines(lines, crop_to_terminal=crop_to_terminal)
WriteLines ==
    /\ wPc = "called"
    /\ LET height == WriteHeight(wArgs.lines, wArgs.crop_to_terminal, wArgs.max_height)
       IN  /\ wWritten' = LinesWritten(wArgs.lines, height)
           /\ wScreen' = wScreen \o LinesWritten(wArgs.lines, height)
           /\ wHeight' = height
    /\ wPc' = "written"
    /\ UNCHANGED wArgs
    /\ UNCHANGED <<cyclicVars, frangeVars, fractionsVars, hexVars, colorVars,
                   boundsVars, memoVars>>

\* clear_lines(lines_written)
RefreshClear ==
    /\ wPc = "written"
    /\ wScreen' = ClearLines(wScreen, wHeight)
    /\ wPc' = "cleared"
    /\ UNCHANGED <<wArgs, wHeight, wWritten>>
    /\ UNCHANGED <<cyclicVars, frangeVars, fractionsVars, hexVars, colorVars,
                   boundsVars, memoVars>>

LinesNext == WriteLines \/ RefreshClear

----------------------------------------------------------------------------
(* Specifications: one per operation, the others' state idle *)

InitCyclic ==
    CyclicInit /\ FrangeIdle /\ FractionsIdle /\ HexIdle /\ ColorIdle
    /\ BoundsIdle /\ MemoIdle /\ LinesIdle

SpecCyclic == InitCyclic /\ [][CyclicNext]_vars

InitFrange ==
    FrangeInit /\ CyclicIdle /\ FractionsIdle /\ HexIdle /\ ColorIdle
    /\ BoundsIdle /\ MemoIdle /\ LinesIdle

SpecFrange == InitFrange /\ [][FrangeNext]_vars

InitFractions ==
    FractionsInit /\ CyclicIdle /\ FrangeIdle /\ HexIdle /\ ColorIdle
    /\ BoundsIdle /\ MemoIdle /\ LinesIdle

SpecFractions == InitFractions /\ [][FractionsNext]_vars

InitHex ==
    HexInit /\ CyclicIdle /\ FrangeIdle /\ FractionsIdle /\ ColorIdle
    /\ BoundsIdle /\ MemoIdle /\ LinesIdle

SpecHex == InitHex /\ [][HexNext]_vars

InitColor ==
    ColorInit /\ CyclicIdle /\ FrangeIdle /\ FractionsIdle /\ HexIdle
    /\ BoundsIdle /\ MemoIdle /\ LinesIdle

SpecColor == InitColor /\ [][ColorNext]_vars

InitColorOps ==
    ColorOpsInit /\ CyclicIdle /\ FrangeIdle /\ FractionsIdle /\ HexIdle
    /\ BoundsIdle /\ MemoIdle /\ LinesIdle

SpecColorOps == InitColorOps /\ [][ColorOpsNext]_vars

InitBounds ==
    BoundsInit /\ CyclicIdle /\ FrangeIdle /\ FractionsIdle /\ HexIdle /\ ColorIdle
    /\ MemoIdle /\ LinesIdle

SpecBounds == InitBounds /\ [][BoundsNext]_vars

InitMemo ==
    MemoInit /\ CyclicIdle /\ FrangeIdle /\ FractionsIdle /\ HexIdle /\ ColorIdle
    /\ BoundsIdle /\ LinesIdle

SpecMemo == InitMemo /\ [][MemoNext]_vars

InitLines ==
    LinesInit /\ CyclicIdle /\ FrangeIdle /\ FractionsIdle /\ HexIdle /\ ColorIdle
    /\ BoundsIdle /\ MemoIdle

SpecLines == InitLines /\ [][LinesNext]_vars

----------------------------------------------------------------------------
(* C1 *)

\* C1 as stated: for all start, end and period the constructor returns bounds
\* whose stored start and end satisfy |end - start| <= period / 2.
C1_ShortestArcAnyPeriod ==
    cBounds.status # "new" =>
        /\ cBounds.status = "ok"
        /\ Abs(cBounds.end - cBounds.start) * 2 <= cBounds.period

\* C1 amended: for all start and end and every period > 0, the constructed
\* bounds store a start and an end with |end - start| <= period / 2.
C1_ShortestArc ==
    (cBounds.status # "new" /\ cArgs.period > 0) =>
        /\ cBounds.status = "ok"
        /\ Abs(cBounds.end - cBounds.start) * 2 <= cBounds.period

\* A positive period where the phase shift moved start out of [0, period).
C1_Witness ==
    /\ cBounds.status = "ok"
    /\ cArgs.period > 0
    /\ cBounds.start # PyMod(cArgs.start, cArgs.period)
    /\ cBounds.start < 0

----------------------------------------------------------------------------
(* C2 *)

\* The argument without its one optional leading '#'.
DigitsOf(arg) == IF Len(arg) > 0 /\ arg[1] = "#" THEN SubSeq(arg, 2, Len(arg)) ELSE arg

\* The lowercase 6-digit expansion: d gives dddddd, xy gives xyxyxy, rgb gives
\* rrggbb, six digits give themselves.
SixDigits(d) ==
    [i \in 1..6 |->
        LowerChar(IF Len(d) = 1 THEN d[1]
                  ELSE IF Len(d) = 2 THEN d[((i - 1) % 2) + 1]
                  ELSE IF Len(d) = 3 THEN d[(i + 1) \div 2]
                  ELSE d[i])]

\* C2: for every accepted hex string h, Color.from_hex(h).hex is the
\* lowercase 6-digit expansion of h.
C2_HexRoundTrip ==
    (hRes.status = "Color" /\ hHex # <<>>) => hHex = SixDigits(DigitsOf(hArg))

\* A '#'-prefixed three-digit string with an uppercase digit was read back.
C2_Witness ==
    /\ hHex # <<>>
    /\ Len(hArg) = 4
    /\ hArg[1] = "#"
    /\ hArg[3] = "F"
    /\ hHex[3] = "f"

----------------------------------------------------------------------------
(* C3 *)

HexReturnedColor == hRes.status \in {"Color", "ColorOfMalformed"}

\* C3 as stated: from_hex accepts a string exactly when its length after
\* removing one optional leading '#' is 1, 2, 3 or 6, every other string is
\* rejected with ValueError, and from_hex(None) returns None.
C3_AcceptedIffLength ==
    hRes.status # "pending" =>
        IF hArg = NoneArg THEN hRes.status = "None"
        ELSE /\ HexReturnedColor <=> Len(DigitsOf(hArg)) \in {1, 2, 3, 6}
             /\ ~HexReturnedColor => hRes.status = "ValueError"

\* C3 amended: from_hex returns a Color for every string that, after removing
\* one optional leading '#', is 1, 2, 3 or 6 hex digits; it raises ValueError
\* and returns no Color for every string whose length after removing one
\* optional leading '#' is anything else (the empty string included);
\* from_hex(None) returns None.
C3_AcceptedByLengthAndDigits ==
    hRes.status # "pending" =>
        IF hArg = NoneArg THEN hRes.status = "None"
        ELSE LET d == DigitsOf(hArg) IN
             /\ (Len(d) \in {1, 2, 3, 6} /\ \A i \in 1..Len(d) : IsHexDigit(d[i]))
                    => hRes.status = "Color"
             /\ Len(d) \notin {1, 2, 3, 6} => hRes.status = "ValueError"

\* A string with two leading '#' was rejected for its length.
C3_Witness ==
    /\ hRes.status = "ValueError"
    /\ Len(hArg) = 5
    /\ hArg[1] = "#"
    /\ hArg[2] = "#"
    /\ hArg[3] = "a"

----------------------------------------------------------------------------
(* C4 *)

\* The values of a sequence.
Range(seq) == {seq[i] : i \in 1..Len(seq)}

StrictlyIncreasing(seq) == \A i \in 1..(Len(seq) - 1) : seq[i] < seq[i + 1]

\* v is strictly less than end and not within tolerance of end.
BelowEnd(v, e) == v < e /\ ~IsClose(v, e)

\* The k-th candidate value start + k * step.
Candidate(k) == fS + k * FrangeStep

FrangeForward == fPc = "done" /\ FrangeStep > 0 /\ fS < fE

\* C4 as stated: for step > 0 and start < end, frange yields exactly the
\* values start + k*step, k = 0, 1, 2, ..., that are strictly less than end
\* and not within tolerance of end, in increasing order.
C4_ExactlyBelowEndFromZero ==
    FrangeForward =>
        /\ StrictlyIncreasing(fOut)
        /\ \A k \in 0..(MaxYield + 1) :
               (Candidate(k) \in Range(fOut)) <=> BelowEnd(Candidate(k), fE)
        /\ \A i \in 1..Len(fOut) : fOut[i] = Candidate(i - 1)

\* C4 amended: for step > 0 and start < end, frange yields start and then
\* exactly the values start + k*step, k = 1, 2, ..., that are strictly less
\* than end and not within tolerance of end, in increasing order; a value
\* equal to end is never yielded; step 0.13 with end 0.51 or 0.52 yields the
\* 4 values up to 0.39, with end 0.53 the 5 values up to 0.52.
C4_StartThenBelowEnd ==
    /\ FrangeForward =>
        /\ StrictlyIncreasing(fOut)
        /\ fOut[1] = fS
        /\ \A k \in 1..(MaxYield + 1) :
               (Candidate(k) \in Range(fOut)) <=> BelowEnd(Candidate(k), fE)
        /\ \A i \in 1..Len(fOut) : fOut[i] = Candidate(i - 1)
        /\ fE \notin Range(fOut)
    /\ (fPc = "done" /\ fArgs \in {<<13, 51>>, <<13, 52>>}) => fOut = <<0, 13, 26, 39>>
    /\ (fPc = "done" /\ fArgs = <<13, 53>>) => fOut = <<0, 13, 26, 39, 52>>

\* A forward range that stopped at a value below end but within tolerance of it.
C4_Witness ==
    /\ FrangeForward
    /\ Len(fOut) >= 2
    /\ fN < fE
    /\ IsClose(fN, fE)

----------------------------------------------------------------------------
(* C5 *)

\* C5: frange with step == 0 fails with ValueError for every start and end,
\* and no value is yielded before the failure.
C5_ZeroStepRaises ==
    (FrangeStep = 0 /\ fPc # "created") => (fPc = "raised" /\ fOut = <<>>)

\* A zero step with both bounds given has raised.
C5_Witness == fPc = "raised" /\ Len(fArgs) = 3 /\ fArgs[2] < fArgs[3]

----------------------------------------------------------------------------
(* C6 *)

InconsistentSign ==
    \/ FrangeStep > 0 /\ fS > fE
    \/ FrangeStep < 0 /\ fS < fE

\* C6: when the sign of step is inconsistent with the direction from start to
\* end, frange yields only start and then ends.
C6_InconsistentSignOnlyStart ==
    (fPc \in {"yielded_s", "yielded_n", "done"} /\ InconsistentSign) => fOut = <<fS>>

----------------------------------------------------------------------------
(* C7 *)

\* C7: frange produces a finite sequence for every non-zero step: it never
\* holds more values than the steps that fit between start and end, plus start.
C7_FiniteSequence ==
    (fPc \in {"yielded_s", "yielded_n", "done"}) =>
        Len(fOut) <= 1 + (Abs(fE - fS) \div Abs(FrangeStep))

----------------------------------------------------------------------------
(* C8 *)

\* The values between the leading 0 and the trailing 1, when inclusive.
FractionsInner ==
    IF qArgs.inclusive THEN SubSeq(qOut, 2, Len(qOut) - 1) ELSE qOut

\* C8: fractions(n) yields exactly the n strictly increasing values i/(n+1),
\* i = 1..n, all strictly inside (0,1); with inclusive=True it yields 0 first
\* and 1 last in addition, n+2 values in total.
C8_Fractions ==
    qPc = "done" =>
        /\ Len(qOut) = qArgs.n + (IF qArgs.inclusive THEN 2 ELSE 0)
        /\ Len(FractionsInner) = qArgs.n
        /\ \A i \in 1..Len(FractionsInner) :
               /\ QuotEq(FractionsInner[i], <<i, qArgs.n + 1>>)
               /\ QuotLess(<<0, 1>>, FractionsInner[i])
               /\ QuotLess(FractionsInner[i], <<1, 1>>)
        /\ \A i \in 1..(Len(qOut) - 1) : QuotLess(qOut[i], qOut[i + 1])
        /\ qArgs.inclusive =>
               /\ QuotEq(qOut[1], <<0, 1>>)
               /\ QuotEq(qOut[Len(qOut)], <<1, 1>>)

\* fractions(7, inclusive=True) ran to its end.
C8_Witness == qPc = "done" /\ qArgs.n = 7 /\ qArgs.inclusive /\ Len(qOut) = 9

----------------------------------------------------------------------------
(* C9 *)

\* c, the Color built by from_fields.
Built == kPath[1]

\* C9 as stated: for every Color c built by from_fields, lightness 0 and 1
\* included, c.contrasting_shade.contrasting_shade == c.
C9_DoubleShadeAnyLightness ==
    kOps = <<"contrasting_shade", "contrasting_shade">> => kPath[3] = Built

\* C9 amended: for every Color c built by from_fields with lightness in
\* [0, 1), 0 included and 1 excluded, c.contrasting_shade.contrasting_shade == c.
C9_DoubleShade ==
    (kOps = <<"contrasting_shade", "contrasting_shade">> /\ Built.lightness < Unit)
        => kPath[3] = Built

\* A Color of lightness 0.5 whose lightness wrapped to 0 and came back.
C9_Witness ==
    /\ kOps = <<"contrasting_shade", "contrasting_shade">>
    /\ Built.lightness = Half
    /\ kPath[2].lightness = 0
    /\ kPath[3].lightness = Half

----------------------------------------------------------------------------
(* C10 *)

\* C10: for every Color c built by from_fields, c.contrasting_hue has the
\* lightness and saturation of c and a hue exactly half the circle away, and
\* c.contrasting_hue.contrasting_hue == c.
C10_DoubleHue ==
    /\ (Len(kOps) >= 1 /\ kOps[1] = "contrasting_hue") =>
           /\ kPath[2].lightness = Built.lightness
           /\ kPath[2].saturation = Built.saturation
           /\ kPath[2].hue \in {Built.hue + Half, Built.hue - Half}
           /\ kPath[2].hue \in 0..(Unit - 1)
    /\ kOps = <<"contrasting_hue", "contrasting_hue">> => kPath[3] = Built

\* A hue in the upper half circle that wrapped to the lower half and came back.
C10_Witness ==
    /\ kOps = <<"contrasting_hue", "contrasting_hue">>
    /\ Built.hue > Half
    /\ kPath[2].hue = Built.hue - Half
    /\ kPath[3].hue = Built.hue

----------------------------------------------------------------------------
(* C11 *)

Normalized(c) ==
    /\ c.lightness >= 0 /\ c.lightness <= Unit
    /\ c.saturation >= 0 /\ c.saturation <= Unit
    /\ c.hue >= 0 /\ c.hue < Unit

----------------------------------------------------------------------------
(* C16 *)

\* The Color the last operation was applied to, and the Color it returned.
Original == kPath[Len(kPath) - 1]

Result == kPath[Len(kPath)]

LastOp == IF kOps = <<>> THEN "none" ELSE kOps[Len(kOps)]

\* r is clamp(own * factor), the product taken in squared quanta.
ClampedProduct(r, own, factor) ==
    r * Unit = Min(Max(0, own * factor), Unit * Unit)

\* C16: the result of with_changed has lightness clamp(lightness * factor) and
\* saturation clamp(saturation * factor) for each factor given, 0 included,
\* hue (hue + amount) mod 1 when an amount is given, and every field not
\* given as in the original Color.
C16_WithChanged ==
    LastOp = "with_changed" =>
        /\ IF kCall.lightness = NotGiven
           THEN Result.lightness = Original.lightness
           ELSE ClampedProduct(Result.lightness, Original.lightness, kCall.lightness[1])
        /\ IF kCall.saturation = NotGiven
           THEN Result.saturation = Original.saturation
           ELSE ClampedProduct(Result.saturation, Original.saturation, kCall.saturation[1])
        /\ IF kCall.hue = NotGiven
           THEN Result.hue = Original.hue
           ELSE /\ Result.hue \in 0..(Unit - 1)
                /\ (Result.hue - (Original.hue + kCall.hue[1])) % Unit = 0

\* with_changed(lightness=0) of a Color of positive lightness gave lightness 0
\* and left saturation and hue alone.
C16_Witness ==
    /\ LastOp = "with_changed"
    /\ kCall.lightness = Given(0)
    /\ kCall.saturation = NotGiven
    /\ Original.lightness > 0
    /\ Original.saturation > 0
    /\ Result.lightness = 0
    /\ Result.saturation = Original.saturation

----------------------------------------------------------------------------
(* C17 *)

\* The number of Colors shades(n, inclusive) is to yield.
ShadesCount == kCall.n + (IF kCall.inclusive THEN 2 ELSE 0)

\* The numerator over n + 1 of the i-th value of fractions(n, inclusive).
ShadeNumerator(i) == IF kCall.inclusive THEN i - 1 ELSE i

\* C17: shades(n, inclusive) yields n Colors (n + 2 when inclusive), each with
\* the hue and saturation of the original Color and the successive values of
\* fractions(n, inclusive) as lightness, strictly increasing; when inclusive
\* the first has lightness 0 and the last lightness 1.
C17_Shades ==
    LastOp = "shades" =>
        /\ Len(kShades) = ShadesCount
        /\ \A i \in 1..Len(kShades) :
            /\ kShades[i].hue = Original.hue
            /\ kShades[i].saturation = Original.saturation
            /\ kShades[i].lightness * (kCall.n + 1) = ShadeNumerator(i) * Unit
        /\ \A i \in 1..(Len(kShades) - 1) :
            kShades[i].lightness < kShades[i + 1].lightness
        /\ kCall.inclusive =>
            /\ kShades[1].lightness = 0
            /\ kShades[Len(kShades)].lightness = Unit

\* shades(1, inclusive=True) of a Color of another lightness gave 0, 0.5, 1.
C17_Witness ==
    /\ LastOp = "shades"
    /\ kCall.n = 1
    /\ kCall.inclusive
    /\ Original.lightness = Unit
    /\ Len(kShades) = 3
    /\ kShades[2].lightness = Half

----------------------------------------------------------------------------
(* C15 *)

\* The generator has bound s and e.
FrangeBound == fPc \in {"yielded_s", "yielded_n", "done"}

\* C15: frange(step) covers 0 up to 1; frange(step, x) starts at 0 and has x
\* as its end; frange(step, a, b) starts at a and has b as its end; for every
\* value of x, a and b, 0 included.
C15_ArgumentConvention ==
    FrangeBound =>
        /\ fOut[1] = fS
        /\ Len(fArgs) = 1 => (fS = 0 /\ fE = 1)
        /\ Len(fArgs) = 2 => (fS = 0 /\ fE = fArgs[2])
        /\ Len(fArgs) = 3 => (fS = fArgs[2] /\ fE = fArgs[3])

----------------------------------------------------------------------------
(* C12 *)

\* inverse_interpolate has been called, on its own or on an interpolated value.
Inverted == bPc \in {"inverted", "roundtrip"}

\* start and end as the constructor received them (defaults filled in).
ArgStart == Param(bArgs, 1)

ArgEnd == Param(bArgs, 2)

ArgPeriod == Param(bArgs, 3)

\* start and end are congruent modulo the period.
Congruent == PyMod(ArgStart, ArgPeriod) = PyMod(ArgEnd, ArgPeriod)

\* C12 as stated: for linear bounds with start == end, and for cyclic bounds
\* whose start and end are congruent modulo period, whatever the period,
\* inverse_interpolate returns 0.0 for every n, with or without inside=True.
C12_DegenerateAnyPeriod ==
    /\ (Inverted /\ bObj.kind = "linear" /\ ArgStart = ArgEnd)
           => bPos = Returned(Quot(0, 1))
    /\ (Inverted /\ bObj.kind = "cyclic" /\ Congruent)
           => bPos = Returned(Quot(0, 1))

\* C12 amended: for linear bounds with start == end, and for cyclic bounds
\* with period > 0 whose start and end are congruent modulo period (the
\* default bounds 0 .. full circle included), inverse_interpolate returns 0.0
\* for every n, with or without inside=True, and never fails.
C12_Degenerate ==
    /\ (Inverted /\ bObj.kind = "linear" /\ ArgStart = ArgEnd)
           => bPos = Returned(Quot(0, 1))
    /\ (Inverted /\ bObj.kind = "cyclic" /\ ArgPeriod > 0 /\ Congruent)
           => bPos = Returned(Quot(0, 1))
    /\ (bArgs = [kind |-> "cyclic", args |-> <<>>] /\ bPc # "new")
           => (bPc # "failed" /\ (Inverted => bPos = Returned(Quot(0, 1))))

\* Cyclic bounds with start and end a whole period apart returned 0.0 for an
\* n that is not the start.
C12_Witness ==
    /\ bPc = "inverted"
    /\ bObj.kind = "cyclic"
    /\ ArgPeriod > 0
    /\ ArgEnd = ArgStart + ArgPeriod
    /\ bN # ArgStart * FDen
    /\ bInside
    /\ bPos = Returned(Quot(0, 1))

----------------------------------------------------------------------------
(* C13 *)

\* f, the argument of interpolate, lies in [0, 1].
FInUnit == bF \in 0..FDen

\* inverse_interpolate returned f, the argument interpolate was called with.
PositionIsF == bPos.status = "ok" /\ QuotEq(bPos.f, Quot(bF, FDen))

\* C13: for linear bounds with start != end and every f in [0,1],
\* inverse_interpolate(interpolate(f)) equals f, also with inside=True.
C13_LinearRoundTrip ==
    (bPc = "roundtrip" /\ bObj.kind = "linear" /\ ArgStart # ArgEnd /\ FInUnit)
        => PositionIsF

\* Descending bounds, f = 1 and inside=True: the position came back as 1.
C13_Witness ==
    /\ bPc = "roundtrip"
    /\ bObj.kind = "linear"
    /\ ArgStart > ArgEnd
    /\ bF = FDen
    /\ bInside
    /\ bPos.status = "ok"
    /\ QuotEq(bPos.f, Quot(1, 1))

----------------------------------------------------------------------------
(* C14 *)

\* C14: constructing LogarithmicInterpolationBounds with start <= 0 or
\* end <= 0 (its default start of 0 included) fails with an error and leaves
\* no bounds object, and inverse_interpolate with n <= 0 on valid bounds fails
\* with an error and returns no position.
C14_LogarithmicDomain ==
    /\ (bArgs.kind = "logarithmic" /\ bPc # "new" /\ (ArgStart <= 0 \/ ArgEnd <= 0))
           => (bPc = "failed" /\ bObj.status = "ValueError")
    /\ (bObj.kind = "logarithmic" /\ Inverted /\ bN <= 0)
           => bPos.status = "ValueError"

\* Valid logarithmic bounds whose inverse_interpolate(0) raised.
C14_Witness ==
    /\ bObj.kind = "logarithmic"
    /\ bObj.status = "ok"
    /\ bObj.start # bObj.end
    /\ bPc = "inverted"
    /\ bN = 0
    /\ bPos.status = "ValueError"

----------------------------------------------------------------------------
(* C19 *)

\* C19: for cyclic bounds with period > 0 and start, end not congruent modulo
\* period, inverse_interpolate(interpolate(f)) equals f for every f in [0,1],
\* bounds whose shortest arc crosses the wrap point included.
C19_CyclicRoundTrip ==
    (bPc = "roundtrip" /\ bObj.kind = "cyclic" /\ ArgPeriod > 0 /\ ~Congruent /\ FInUnit)
        => PositionIsF

----------------------------------------------------------------------------
(* C20 *)

\* interpolate has been called.
Interpolated == bPc \in {"interpolated", "roundtrip"}

----------------------------------------------------------------------------
(* C18 *)

\* The threads whose read of _span has returned.
HaveRead == {t \in Threads : mPc[t] = "return"}

----------------------------------------------------------------------------
(* C21 *)

\* The last n lines of a block, n <= len(block).
LastLines(block, n) == SubSeq(block, Len(block) - n + 1, Len(block))

\* C21: write_lines returns exactly the number of lines it wrote, for every
\* block and every terminal height >= 1; with crop_to_terminal it writes only
\* the last min(len(block), terminal_height - 1) lines; and the later
\* clear_lines(returned count) erases exactly the lines that were written.
C21_ReturnsLinesWritten ==
    (wPc \in {"written", "cleared"} /\ wArgs.max_height >= 1) =>
        /\ wHeight = Len(wWritten)
        /\ wArgs.crop_to_terminal =>
               wWritten = LastLines(wArgs.lines, Min(Len(wArgs.lines), wArgs.max_height - 1))
        /\ ~wArgs.crop_to_terminal => wWritten = wArgs.lines
        /\ wPc = "cleared" => wScreen = EarlierOutput

====
